---- MODULE Spec2Model ----
(***************************************************************************)
(* FireGen job lifecycle: one job record in the record store, the          *)
(* creation trigger and its (possibly duplicated) deliveries, startJob,    *)
(* analyzeAndTransformJob, the poll task queue and the poll tick handler,  *)
(* and an external party that may cancel the job.                          *)
(*                                                                         *)
(* Every await of a handler is a separate step: other handlers, the clock  *)
(* and the external party interleave between a handler's read of the       *)
(* record and its later writes.                                            *)
(***************************************************************************)
EXTENDS Integers, Sequences, FiniteSets, TLC

\* ------------------------------------------------------------------ bounds

\* Deliveries of the "job created" event (the trigger is at-least-once).
MaxDeliveries == 2
\* Poll ticks that may be executing at the same time.
MaxPollers == 2
\* Clock advances in one behaviour.
MaxClockTicks == 1
\* External writes of status=canceled in one behaviour.
MaxCancels == 1
\* Poll attempt ceiling, compressed (the deployed value is 100).
MAX_POLL_ATTEMPTS == 2

\* ------------------------------------------------------- program constants

JOB_TTL_MS == 5400000
POLL_INTERVAL_MS == 1000
FIREGEN_VERSION == "0.3.3"

\* Model identifiers: an asynchronous adapter, a synchronous adapter, and an
\* identifier the registry does not know.
VeoModel == "veo-3.1-fast-generate-preview"
ImageModel == "gemini-2.5-flash-image"
UnknownModel == "no-such-model"
MODEL_REGISTRY == {VeoModel, ImageModel}

isValidModelId(modelId) == modelId \in MODEL_REGISTRY

\* ---------------------------------------------------------- optional values

None == <<>>
Some(v) == <<v>>
Has(o) == o # <<>>
Val(o) == o[1]

\* --------------------------------------------------------------- job record

TerminalStatuses == {"succeeded", "failed", "expired", "canceled"}
Statuses == {"requested", "starting", "running"} \cup TerminalStatuses

\* A raw string record (AI-assisted mode) has no fields at all.
StringJob ==
    [ isString |-> TRUE, status |-> "absent", model |-> "absent",
      uid |-> None, request |-> None,
      assisted |-> None, response |-> None, files |-> None, error |-> None,
      version |-> None, createdAt |-> None, updatedAt |-> None,
      operation |-> None, ttl |-> None, attempt |-> None,
      nextPoll |-> None, lastError |-> None ]

\* The owner of the job (event.auth.uid).
Uid == "user-123"

\* The record an explicit-mode client writes.
ExplicitJob(modelId) ==
    [ StringJob EXCEPT !.isString = FALSE, !.status = "requested",
                       !.model = modelId, !.uid = Some(Uid),
                       !.request = Some("client request") ]

\* ------------------------------------------------------- URL tagging codec

\* The longest run of references in one free text.
MaxRefs == 3

\* A reference as it stands in the free text, with the parts the scanner
\* captures from it: the accepted form, the bucket, and the object path cut
\* at its separators (left percent-encoded where the text has it so).
GsRef(text, bucket, pieces) ==
    [text |-> text, form |-> "gs", bucket |-> bucket, pieces |-> pieces,
     query |-> "none"]
StorageApiRef(text, bucket, pieces) ==
    [text |-> text, form |-> "storage-api", bucket |-> bucket,
     pieces |-> pieces, query |-> "none"]
FirebaseRef(text, bucket, pieces, query) ==
    [text |-> text, form |-> "firebase", bucket |-> bucket,
     pieces |-> pieces, query |-> query]

References ==
    { GsRef("gs://example/product1.jpg", "example", <<"product1", ".", "jpg">>),
      GsRef("gs://example/product2.png", "example", <<"product2", ".", "png">>),
      GsRef("gs://my-bucket/images/landscape.jpg", "my-bucket",
            <<"images", "/", "landscape", ".", "jpg">>),
      StorageApiRef("https://storage.googleapis.com/my-bucket/images/landscape.jpg",
            "my-bucket", <<"images", "/", "landscape", ".", "jpg">>),
      FirebaseRef("https://firebasestorage.googleapis.com/v0/b/my-project.appspot.com/o/users%2Ftest%2Fvideo.mp4?alt=media",
            "my-project.appspot.com",
            <<"users", "%2F", "test", "%2F", "video", ".", "mp4">>, "alt=media"),
      FirebaseRef("https://firebasestorage.googleapis.com/v0/b/studio-3670859293-6f970.firebasestorage.app/o/users%2FnZ86oPazPgT3yZjTHhFFjkj7sR42%2Fprojects%2Fx5f8I6Tq99AGgj4HJrzF%2Fkeyframes%2Ffd3d84c9-9331-49ed-9739-7b35e76d9f9b.jpg?alt=media&token=8b570af6-92f9-4040-8f0c-c3ac0ae8ce17",
            "studio-3670859293-6f970.firebasestorage.app",
            <<"users", "%2F", "nZ86oPazPgT3yZjTHhFFjkj7sR42", "%2F", "projects",
              "%2F", "x5f8I6Tq99AGgj4HJrzF", "%2F", "keyframes", "%2F",
              "fd3d84c9-9331-49ed-9739-7b35e76d9f9b", ".", "jpg">>,
            "alt=media&token=8b570af6-92f9-4040-8f0c-c3ac0ae8ce17") }

\* The references of a free text, in the order they stand in it.
Texts == UNION { [1..n -> References] : n \in 1..MaxRefs }

RECURSIVE Concat(_)
Concat(pieces) ==
    IF pieces = <<>> THEN "" ELSE Head(pieces) \o Concat(Tail(pieces))

\* decodeURIComponent on one piece of a captured path.
PercentDecode(piece) == IF piece = "%2F" THEN "/" ELSE piece

\* The object path of a reference: a download URL carries it
\* percent-encoded, the other two forms carry it as it is.
ObjectPath(ref) ==
    Concat([k \in 1..Len(ref.pieces) |->
              IF ref.form = "firebase" THEN PercentDecode(ref.pieces[k])
                                       ELSE ref.pieces[k]])

\* Mutant: the download URL's path is taken over still encoded.
Canonicalize_NoDecode(ref) == "gs://" \o ref.bucket \o "/" \o Concat(ref.pieces)

\* The single storage-URI representation of a reference: bucket and object
\* path, nothing of the query.
Canonicalize(ref) == "gs://" \o ref.bucket \o "/" \o ObjectPath(ref)

\* The extension of the object name.
Extension(ref) == ref.pieces[Len(ref.pieces)]

\* Mutant: every image is taken for a JPEG.
InferMime_AlwaysJpeg(ext) ==
    CASE ext = "jpg" -> "image/jpeg"
      [] ext = "png" -> "image/jpeg"
      [] ext = "mp4" -> "video/mp4"

\* The media type inferred from the extension.
InferMime(ext) ==
    CASE ext = "jpg" -> "image/jpeg"
      [] ext = "png" -> "image/png"
      [] ext = "mp4" -> "video/mp4"

\* The media type as a placeholder spells it.
MimeTag(mime) ==
    CASE mime = "image/jpeg" -> "IMAGE_JPEG"
      [] mime = "image/png" -> "IMAGE_PNG"
      [] mime = "video/mp4" -> "VIDEO_MP4"

Digits == <<"1", "2", "3", "4", "5", "6">>

\* The token put in place of a reference: its media type and its index.
Placeholder(mime, index) ==
    "<FIREGEN_" \o MimeTag(mime) \o "_URI_" \o Digits[index] \o "/>"

\* One entry of the table the pipeline keeps between tagging and resolution.
TableEntry(ref) ==
    [uri |-> Canonicalize(ref), mimeType |-> InferMime(Extension(ref))]

\* The table of a text: one entry per distinct reference, in the order of
\* first occurrence.
RECURSIVE UrlTable(_)
UrlTable(text) ==
    IF text = <<>> THEN <<>>
    ELSE LET rest == UrlTable(SubSeq(text, 1, Len(text) - 1))
             e == TableEntry(text[Len(text)])
         IN IF \E k \in 1..Len(rest) : rest[k] = e THEN rest
            ELSE Append(rest, e)

\* The index a reference has in the table.
IndexOf(table, ref) == CHOOSE k \in 1..Len(table) : table[k] = TableEntry(ref)

\* The text with every reference replaced by its placeholder.
TagText(text, table) ==
    [k \in 1..Len(text) |->
        Placeholder(InferMime(Extension(text[k])), IndexOf(table, text[k]))]

\* Mutant: the resolver counts the table from zero.
Resolve_OffByOne(token, table) ==
    LET k == CHOOSE n \in 1..Len(table) :
                 Placeholder(table[n].mimeType, n) = token
        m == IF k > 1 THEN k - 1 ELSE Len(table)
    IN [gcsUri |-> table[m].uri, mimeType |-> table[m].mimeType]

\* The media object a placeholder stands for: the table entry its index
\* names, with the media type put back on it.
Resolve(token, table) ==
    LET k == CHOOSE n \in 1..Len(table) :
                 Placeholder(table[n].mimeType, n) = token
    IN [gcsUri |-> table[k].uri, mimeType |-> table[k].mimeType]

\* The pipeline at rest.
CodecIdle ==
    [pc |-> "idle", text |-> <<>>, table |-> <<>>, tagged |-> <<>>,
     picked |-> <<>>, structured |-> <<>>, request |-> <<>>]

\* ------------------------------------------------------------------- state

VARIABLES
    enqueued,    \* the distinct tasks handed to queue.enqueue so far
    codec,       \* the assisted-mode URL pipeline: text, tags, table, request
    input,       \* what the client wrote: explicit record or free-text prompt
    job,         \* the job record in the record store
    now,         \* Date.now()
    ticks,       \* clock advances so far
    cancels,     \* external cancellations so far
    queue,       \* poll tasks enqueued and not yet dispatched
    inv,         \* one entry per delivery of the "job created" event
    poll,        \* one entry per executing poll tick
    startCalls   \* calls of adapter.start so far

vars == <<enqueued, codec, input, job, now, ticks, cancels, queue, inv, poll, startCalls>>

Deliveries == 1..MaxDeliveries
Pollers == 1..MaxPollers

Prompt == "Create a 4 second sunset video with gentle waves"

Inputs ==
    { [mode |-> "explicit", model |-> m] : m \in MODEL_REGISTRY \cup {UnknownModel} }
        \cup { [mode |-> "assisted", model |-> "absent"] }

IdleInv == [pc |-> "pending", model |-> "absent", out |-> "none", op |-> 0,
            err |-> "none", msg |-> "none"]
\* A handler that has returned keeps no locals.
DoneInv == [IdleInv EXCEPT !.pc = "done"]
IdlePoll == [pc |-> "idle", attempt |-> 0, hasOp |-> FALSE, res |-> "none"]

Init ==
    /\ enqueued = {}
    /\ codec = CodecIdle
    /\ input \in Inputs
    /\ job = IF input.mode = "explicit" THEN ExplicitJob(input.model) ELSE StringJob
    /\ now = 0
    /\ ticks = 0
    /\ cancels = 0
    /\ queue = 0
    /\ inv = [i \in Deliveries |-> IdleInv]
    /\ poll = [p \in Pollers |-> IdlePoll]
    /\ startCalls = 0

\* ---------------------------------------------------------------- adapters

\* What adapter.start may hand back: an operation handle (async), an output
\* with a media reference or with text only (sync), a result that breaks the
\* contract (both, neither), or an exception (a schema error or any other).
AdapterOutcomes(modelId) ==
    (IF modelId = VeoModel THEN {"operation", "both"} ELSE {"media", "text"})
        \cup {"neither", "throw", "zod"}

\* The output an adapter reports for a finished generation.
OutputUri(modelId) ==
    IF modelId = VeoModel THEN "gs://bucket/firegen-jobs/job1/video.mp4"
    ELSE "gs://bucket/firegen-jobs/job1/image.png"
OutputMime(modelId) == IF modelId = VeoModel THEN "video/mp4" ELSE "image/png"

\* uri.match(/\.([a-z0-9]+)$/i) on the URIs above.
UriExtension(uri) ==
    CASE uri = "gs://bucket/firegen-jobs/job1/video.mp4" -> Some("mp4")
      [] uri = "gs://bucket/firegen-jobs/job1/image.png" -> Some("png")
      [] OTHER -> None

typeMap(mimeType) ==
    CASE mimeType = "video/mp4" -> ".mp4"
      [] mimeType = "image/png" -> ".png"
      [] mimeType = "image/jpeg" -> ".jpg"
      [] mimeType = "audio/wav" -> ".wav"
      [] mimeType = "audio/mpeg" -> ".mp3"
      [] OTHER -> ""

\* Mutant: the extension of the URI is returned without its leading dot.
getFileExtension_NoDot(uri, mimeType) ==
    IF Has(uri) /\ Has(UriExtension(Val(uri))) THEN Val(UriExtension(Val(uri)))
    ELSE IF Has(mimeType) THEN typeMap(Val(mimeType))
    ELSE ""

getFileExtension(uri, mimeType) ==
    IF Has(uri) /\ Has(UriExtension(Val(uri))) THEN "." \o Val(UriExtension(Val(uri)))
    ELSE IF Has(mimeType) THEN typeMap(Val(mimeType))
    ELSE ""

\* The files array built from an output with a media reference.
BuildFiles(uri, mimeType) ==
    << [ name |-> "file0" \o getFileExtension(Some(uri), Some(mimeType)),
         gs |-> uri, mimeType |-> mimeType ] >>

\* ------------------------------------------------------ record-store writes
\* jobRef.update(...) changes the named field paths in one atomic write and
\* leaves every other field as it is; jobRef.set(...) replaces the record.

\* Mutant: the starting write also stamps metadata.createdAt.
UpdateStarting_ResetsCreatedAt(j, t) ==
    [j EXCEPT !.isString = FALSE, !.status = "starting", !.updatedAt = Some(t),
              !.createdAt = Some(t)]

\* Mutant: the starting write drops the assisted field.
UpdateStarting_DropsAssisted(j, t) ==
    [j EXCEPT !.isString = FALSE, !.status = "starting", !.updatedAt = Some(t),
              !.assisted = None]

UpdateStarting(j, t) ==
    [j EXCEPT !.isString = FALSE, !.status = "starting", !.updatedAt = Some(t)]

\* Mutant: the running write starts the attempt counter at 1.
UpdateRunning_AttemptOne(j, t, operationName) ==
    [j EXCEPT !.isString = FALSE,
              !.status = "running",
              !.updatedAt = Some(t),
              !.operation = Some(operationName),
              !.ttl = Some(t + JOB_TTL_MS),
              !.attempt = Some(1),
              !.nextPoll = Some(t + POLL_INTERVAL_MS)]

\* Mutant: the running write counts the ttl from the creation of the record.
UpdateRunning_TtlFromCreatedAt(j, t, operationName) ==
    [j EXCEPT !.isString = FALSE,
              !.status = "running",
              !.updatedAt = Some(t),
              !.operation = Some(operationName),
              !.ttl = Some((IF Has(j.createdAt) THEN Val(j.createdAt) ELSE 0)
                             + JOB_TTL_MS),
              !.attempt = Some(0),
              !.nextPoll = Some(t + POLL_INTERVAL_MS)]

UpdateRunning(j, t, operationName) ==
    [j EXCEPT !.isString = FALSE,
              !.status = "running",
              !.updatedAt = Some(t),
              !.operation = Some(operationName),
              !.ttl = Some(t + JOB_TTL_MS),
              !.attempt = Some(0),
              !.nextPoll = Some(t + POLL_INTERVAL_MS)]

\* Mutant: the succeeded write leaves the response for a later write.
UpdateSucceeded_NoResponse(j, t, files) ==
    [j EXCEPT !.isString = FALSE,
              !.status = "succeeded",
              !.files = IF Len(files) > 0 THEN Some(files) ELSE @,
              !.updatedAt = Some(t)]

\* files: files.length > 0 ? files : undefined -- where the record store
\* accepts the update, an undefined value names no field path, so an empty
\* array leaves the stored files field untouched (StartUpdateRejected is the
\* other outcome).
UpdateSucceeded(j, t, files) ==
    [j EXCEPT !.isString = FALSE,
              !.status = "succeeded",
              !.response = Some("rawResponse"),
              !.files = IF Len(files) > 0 THEN Some(files) ELSE @,
              !.updatedAt = Some(t)]

\* Mutant: the failed write clears the polling metadata.
UpdateFailed_ClearsPolling(j, t, code, message) ==
    [j EXCEPT !.isString = FALSE,
              !.status = "failed",
              !.error = Some([code |-> code, message |-> message]),
              !.ttl = None,
              !.nextPoll = None,
              !.updatedAt = Some(t)]

\* Mutant: the failed write records the error and leaves the status.
UpdateFailed_KeepsStatus(j, t, code, message) ==
    [j EXCEPT !.isString = FALSE,
              !.error = Some([code |-> code, message |-> message]),
              !.updatedAt = Some(t)]

UpdateFailed(j, t, code, message) ==
    [j EXCEPT !.isString = FALSE,
              !.status = "failed",
              !.error = Some([code |-> code, message |-> message]),
              !.updatedAt = Some(t)]

\* ---------------------------------------------------------- enqueuePollTask

\* The one job of the model.
JobId == "job1"

\* Mutant: the delay is rounded down.
CeilDiv_Floor(a, b) == a \div b

\* Math.ceil(a / b) for a >= 0, b > 0.
CeilDiv(a, b) == (a + b - 1) \div b

\* What queue.enqueue is given: the payload and the two options.
PollTask(jobId, delayMs) ==
    [ payload |-> [jobPath |-> "firegen-jobs/" \o jobId],
      scheduleDelaySeconds |-> CeilDiv(delayMs, 1000),
      dispatchDeadlineSeconds |-> 60 ]

enqueuePollTask(q) == q + 1

\* ----------------------------------------------------------------- startJob
\* inv[i].pc walks through the awaits of startJob:
\*   s_start -> (s_call | s_catch) -> (s_running -> s_enqueue | s_sync | s_catch)
\*   -> done

SetInv(i, r) == inv' = [inv EXCEPT ![i] = r]

\* Mutant: startJob without the registry check before adapter.start.
StartWriteStarting_NoRegistryCheck(i) ==
    /\ inv[i].pc = "s_start"
    /\ job' = UpdateStarting(job, now)
    /\ SetInv(i, [inv[i] EXCEPT !.pc = "s_call"])
    /\ UNCHANGED <<codec, enqueued, input, now, ticks, cancels, queue, poll, startCalls>>

\* try { await jobRef.update({status: "starting", ...}) ; then the registry
\* check, which is local and either throws or goes on to adapter.start.
StartWriteStarting(i) ==
    /\ inv[i].pc = "s_start"
    /\ job' = UpdateStarting(job, now)
    /\ IF isValidModelId(inv[i].model)
         THEN SetInv(i, [inv[i] EXCEPT !.pc = "s_call"])
         ELSE SetInv(i, [inv[i] EXCEPT !.pc = "s_catch", !.err = "error",
                                       !.msg = "Unknown model ID"])
    /\ UNCHANGED <<codec, enqueued, input, now, ticks, cancels, queue, poll, startCalls>>

\* const result = await adapter.start(job.request, jobId), and the branch on
\* result.operationName / result.output.
StartCall(i) ==
    /\ inv[i].pc = "s_call"
    /\ startCalls' = startCalls + 1
    /\ \E outcome \in AdapterOutcomes(inv[i].model) :
         CASE outcome \in {"operation", "both"} ->
                SetInv(i, [inv[i] EXCEPT !.pc = "s_running", !.out = outcome,
                                         !.op = startCalls + 1])
           [] outcome \in {"media", "text"} ->
                SetInv(i, [inv[i] EXCEPT !.pc = "s_sync", !.out = outcome])
           [] outcome = "neither" ->
                SetInv(i, [inv[i] EXCEPT !.pc = "s_catch", !.out = outcome,
                                         !.err = "error",
                                         !.msg = "Model adapter returned invalid result"])
           [] outcome = "throw" ->
                SetInv(i, [inv[i] EXCEPT !.pc = "s_catch", !.err = "error",
                                         !.msg = "adapter error"])
           [] outcome = "zod" ->
                SetInv(i, [inv[i] EXCEPT !.pc = "s_catch", !.err = "zod",
                                         !.msg = "Validation failed: prompt: Required"])
    /\ UNCHANGED <<codec, enqueued, input, job, now, ticks, cancels, queue, poll>>

\* Async: await jobRef.update({status: "running", ...}).
StartWriteRunning(i) ==
    /\ inv[i].pc = "s_running"
    /\ job' = UpdateRunning(job, now, inv[i].op)
    /\ SetInv(i, [inv[i] EXCEPT !.pc = "s_enqueue"])
    /\ UNCHANGED <<codec, enqueued, input, now, ticks, cancels, queue, poll, startCalls>>

\* await enqueuePollTask(jobId): the task is queued.
StartEnqueue(i) ==
    /\ inv[i].pc = "s_enqueue"
    /\ queue' = enqueuePollTask(queue)
    /\ enqueued' = enqueued \cup {PollTask(JobId, POLL_INTERVAL_MS)}
    /\ SetInv(i, DoneInv)
    /\ UNCHANGED <<codec, input, job, now, ticks, cancels, poll, startCalls>>

\* Mutant: a rejected enqueue leaves startJob without passing the catch.
StartEnqueueFails_Propagates(i) ==
    /\ inv[i].pc = "s_enqueue"
    /\ SetInv(i, DoneInv)
    /\ UNCHANGED <<codec, enqueued, input, job, now, ticks, cancels, queue, poll, startCalls>>

\* await enqueuePollTask(jobId): queue.enqueue rejects.
StartEnqueueFails(i) ==
    /\ inv[i].pc = "s_enqueue"
    /\ SetInv(i, [inv[i] EXCEPT !.pc = "s_catch", !.err = "error",
                                !.msg = "enqueue failed"])
    /\ UNCHANGED <<codec, enqueued, input, job, now, ticks, cancels, queue, poll, startCalls>>

\* Mutant: the sync branch also enqueues a poll task.
StartWriteSucceeded_AlsoEnqueues(i) ==
    /\ inv[i].pc = "s_sync"
    /\ job' = UpdateSucceeded(job, now,
                  IF inv[i].out = "media"
                    THEN BuildFiles(OutputUri(inv[i].model), OutputMime(inv[i].model))
                    ELSE <<>>)
    /\ queue' = enqueuePollTask(queue)
    /\ enqueued' = enqueued \cup {PollTask(JobId, POLL_INTERVAL_MS)}
    /\ SetInv(i, DoneInv)
    /\ UNCHANGED <<codec, input, now, ticks, cancels, poll, startCalls>>

\* Sync: build files (signing the URL), then the one update that writes
\* status "succeeded", response and files.
StartWriteSucceeded(i) ==
    /\ inv[i].pc = "s_sync"
    /\ job' = UpdateSucceeded(job, now,
                  IF inv[i].out = "media"
                    THEN BuildFiles(OutputUri(inv[i].model), OutputMime(inv[i].model))
                    ELSE <<>>)
    /\ SetInv(i, DoneInv)
    /\ UNCHANGED <<codec, enqueued, input, now, ticks, cancels, queue, poll, startCalls>>

\* Sync: generateSignedUrl rejects.
StartSignFails(i) ==
    /\ inv[i].pc = "s_sync"
    /\ inv[i].out = "media"
    /\ SetInv(i, [inv[i] EXCEPT !.pc = "s_catch", !.err = "error",
                                !.msg = "signing failed"])
    /\ UNCHANGED <<codec, enqueued, input, job, now, ticks, cancels, queue, poll, startCalls>>

\* Sync, text-only output: the update names files with the value undefined,
\* which the record store may refuse instead of skipping the field; the
\* rejection is caught like any other error of the try block.
StartUpdateRejected(i) ==
    /\ inv[i].pc = "s_sync"
    /\ inv[i].out = "text"
    /\ SetInv(i, [inv[i] EXCEPT !.pc = "s_catch", !.err = "error",
                                !.msg = "update failed: undefined value"])
    /\ UNCHANGED <<codec, enqueued, input, job, now, ticks, cancels, queue, poll, startCalls>>

\* Mutant: the two error codes of the catch are exchanged.
StartErrorCode_Swapped(err) == IF err = "zod" THEN "START_FAILED" ELSE "VALIDATION_ERROR"

\* catch (err): code VALIDATION_ERROR for a ZodError, START_FAILED otherwise.
StartErrorCode(err) == IF err = "zod" THEN "VALIDATION_ERROR" ELSE "START_FAILED"

StartCatch(i) ==
    /\ inv[i].pc = "s_catch"
    /\ job' = UpdateFailed(job, now, StartErrorCode(inv[i].err), inv[i].msg)
    /\ SetInv(i, DoneInv)
    /\ UNCHANGED <<codec, enqueued, input, now, ticks, cancels, queue, poll, startCalls>>

startJob(i) ==
    \/ StartWriteStarting(i)
    \/ StartCall(i)
    \/ StartWriteRunning(i)
    \/ StartEnqueue(i)
    \/ StartEnqueueFails(i)
    \/ StartWriteSucceeded(i)
    \/ StartSignFails(i)
    \/ StartUpdateRejected(i)
    \/ StartCatch(i)

\* --------------------------------------------------- analyzeAndTransformJob
\*   a_analyze -> (a_set -> startJob | a_catch) -> done

\* What assistedRequest returns besides the model: the validated request
\* for that model and the reasoning chain, in the order of its passes.
AnalyzedRequest(modelId) == "request for " \o modelId
AnalyzedReasons == <<"reason1", "reason2">>

\* Mutant: the transformed job with the reasoning chain in reverse order.
completeJob_ReasonsReversed(modelId, t) ==
    [ StringJob EXCEPT
        !.isString = FALSE,
        !.status = "requested",
        !.model = modelId,
        !.uid = Some(Uid),
        !.request = Some(AnalyzedRequest(modelId)),
        !.assisted = Some([prompt |-> Prompt,
                           reasons |-> <<AnalyzedReasons[2], AnalyzedReasons[1]>>]),
        !.version = Some(FIREGEN_VERSION),
        !.createdAt = Some(t),
        !.updatedAt = Some(t),
        !.ttl = Some(t + JOB_TTL_MS),
        !.attempt = Some(0),
        !.nextPoll = Some(t + POLL_INTERVAL_MS) ]

\* const completeJob: JobNode = {...}; await jobRef.set(completeJob)
completeJob(modelId, t) ==
    [ StringJob EXCEPT
        !.isString = FALSE,
        !.status = "requested",
        !.model = modelId,
        !.uid = Some(Uid),
        !.request = Some(AnalyzedRequest(modelId)),
        !.assisted = Some([prompt |-> Prompt, reasons |-> AnalyzedReasons]),
        !.version = Some(FIREGEN_VERSION),
        !.createdAt = Some(t),
        !.updatedAt = Some(t),
        !.ttl = Some(t + JOB_TTL_MS),
        !.attempt = Some(0),
        !.nextPoll = Some(t + POLL_INTERVAL_MS) ]

\* Mutant: the failure record of the analyzer without the assisted field.
analysisFailedJob_DropsPrompt(t, message) ==
    [ StringJob EXCEPT
        !.isString = FALSE,
        !.status = "failed",
        !.model = "unknown",
        !.uid = Some(Uid),
        !.error = Some([code |-> "AI_ANALYSIS_FAILED",
                        message |-> "AI analysis failed: " \o message]),
        !.version = Some(FIREGEN_VERSION),
        !.createdAt = Some(t),
        !.updatedAt = Some(t) ]

\* The record written by the catch block of analyzeAndTransformJob; the
\* record store keeps nothing for the empty request object.
analysisFailedJob(t, message) ==
    [ StringJob EXCEPT
        !.isString = FALSE,
        !.status = "failed",
        !.model = "unknown",
        !.uid = Some(Uid),
        !.error = Some([code |-> "AI_ANALYSIS_FAILED",
                        message |-> "AI analysis failed: " \o message]),
        !.assisted = Some([prompt |-> Prompt, reasons |-> <<>>]),
        !.version = Some(FIREGEN_VERSION),
        !.createdAt = Some(t),
        !.updatedAt = Some(t) ]

\* const analyzed = await assistedRequest(prompt, jobId): it picks a model of
\* the registry, or throws (a model-call failure, or a schema error of the
\* resolved request).
AnalyzeCall(i) ==
    /\ inv[i].pc = "a_analyze"
    /\ \/ \E m \in MODEL_REGISTRY :
            SetInv(i, [inv[i] EXCEPT !.pc = "a_set", !.model = m])
       \/ \E e \in {"error", "zod"} :
            SetInv(i, [inv[i] EXCEPT !.pc = "a_catch", !.err = e,
                                     !.msg = IF e = "zod"
                                               THEN "Validation failed: prompt: Required"
                                               ELSE "model call failed"])
    /\ UNCHANGED <<codec, enqueued, input, job, now, ticks, cancels, queue, poll, startCalls>>

\* await jobRef.set(completeJob); then await startJob(jobId, completeJob).
AnalyzeSet(i) ==
    /\ inv[i].pc = "a_set"
    /\ job' = completeJob(inv[i].model, now)
    /\ SetInv(i, [inv[i] EXCEPT !.pc = "s_start"])
    /\ UNCHANGED <<codec, enqueued, input, now, ticks, cancels, queue, poll, startCalls>>

\* await jobRef.set(completeJob) rejects: the record is not replaced and the
\* rejection is caught by the catch of analyzeAndTransformJob.
AnalyzeSetRejected(i) ==
    /\ inv[i].pc = "a_set"
    /\ SetInv(i, [inv[i] EXCEPT !.pc = "a_catch", !.err = "error",
                                !.msg = "set failed"])
    /\ UNCHANGED <<codec, enqueued, input, job, now, ticks, cancels, queue, poll, startCalls>>

\* catch (err): await jobRef.set({... status: "failed", code AI_ANALYSIS_FAILED}).
AnalyzeCatch(i) ==
    /\ inv[i].pc = "a_catch"
    /\ job' = analysisFailedJob(now, inv[i].msg)
    /\ SetInv(i, DoneInv)
    /\ UNCHANGED <<codec, enqueued, input, now, ticks, cancels, queue, poll, startCalls>>

analyzeAndTransformJob(i) ==
    \/ AnalyzeCall(i)
    \/ AnalyzeSet(i)
    \/ AnalyzeSetRejected(i)
    \/ AnalyzeCatch(i)

\* ------------------------------------------------- the "job created" trigger
\* The event carries the record as it was created: a string goes to
\* analyzeAndTransformJob, an object to startJob.  The event may be delivered
\* more than once.
onJobCreated(i) ==
    /\ inv[i].pc = "pending"
    /\ \A k \in Deliveries : k < i => inv[k].pc # "pending"
    /\ IF input.mode = "assisted"
         THEN SetInv(i, [inv[i] EXCEPT !.pc = "a_analyze"])
         ELSE SetInv(i, [inv[i] EXCEPT !.pc = "s_start", !.model = input.model])
    /\ UNCHANGED <<codec, enqueued, input, job, now, ticks, cancels, queue, poll, startCalls>>

\* ------------------------------------------------------------------- poller

\* Mutant: the comparison of isJobExpired turned around.
isJobExpired_Reversed(j, t) ==
    IF ~Has(j.ttl) \/ Val(j.ttl) = 0 THEN FALSE ELSE t < Val(j.ttl)

\* Mutant: isJobExpired already true at the deadline itself.
isJobExpired_AtDeadline(j, t) ==
    IF ~Has(j.ttl) \/ Val(j.ttl) = 0 THEN FALSE ELSE t >= Val(j.ttl)

\* Mutant: a record without a ttl counts as expired.
isJobExpired_MissingTtlExpires(j, t) ==
    IF ~Has(j.ttl) \/ Val(j.ttl) = 0 THEN TRUE ELSE t > Val(j.ttl)

\* if (!job.metadata?.ttl) return false; return Date.now() > job.metadata.ttl
isJobExpired(j, t) ==
    IF ~Has(j.ttl) \/ Val(j.ttl) = 0 THEN FALSE ELSE t > Val(j.ttl)

\* Mutant: isJobTerminal without "canceled".
isJobTerminal_NoCanceled(j) == j.status \in {"succeeded", "failed", "expired"}

isJobTerminal(j) == j.status \in {"succeeded", "failed", "expired", "canceled"}

\* The metadata of a new job.
initializeJobMetadata(t) ==
    [ version |-> FIREGEN_VERSION, createdAt |-> t, updatedAt |-> t,
      ttl |-> t + JOB_TTL_MS, attempt |-> 0, nextPoll |-> t + POLL_INTERVAL_MS ]

\* Mutant: incrementPollAttempt writes the attempt back unchanged.
incrementPollAttempt_NoIncrement(j, t, currentAttempt) ==
    [j EXCEPT !.attempt = Some(currentAttempt),
              !.nextPoll = Some(t + POLL_INTERVAL_MS),
              !.updatedAt = Some(t)]

\* Mutant: incrementPollAttempt does not move nextPoll.
incrementPollAttempt_KeepsNextPoll(j, t, currentAttempt) ==
    [j EXCEPT !.attempt = Some(currentAttempt + 1),
              !.updatedAt = Some(t)]

incrementPollAttempt(j, t, currentAttempt) ==
    [j EXCEPT !.attempt = Some(currentAttempt + 1),
              !.nextPoll = Some(t + POLL_INTERVAL_MS),
              !.updatedAt = Some(t)]

\* Mutant: recordPollError leaves the attempt counter as it was read.
recordPollError_NoIncrement(j, t, currentAttempt) ==
    [j EXCEPT !.attempt = Some(currentAttempt),
              !.nextPoll = Some(t + POLL_INTERVAL_MS),
              !.lastError = Some(t),
              !.updatedAt = Some(t)]

recordPollError(j, t, currentAttempt) ==
    [j EXCEPT !.attempt = Some(currentAttempt + 1),
              !.nextPoll = Some(t + POLL_INTERVAL_MS),
              !.lastError = Some(t),
              !.updatedAt = Some(t)]

\* ---------------------------------------------------------- the poll tick
\* poll[p].pc walks through the awaits of one tick:
\*   idle -> (idle | p_expire | p_ceiling | p_call) ; p_call -> (p_enqueue | idle)

CeilingCode == "MAX_POLL_ATTEMPTS_EXCEEDED"
BackendCode == "BACKEND_ERROR"

UpdateExpired(j, t) == [j EXCEPT !.status = "expired", !.updatedAt = Some(t)]

SetPoll(p, r) == poll' = [poll EXCEPT ![p] = r]

AttemptOf(j) == IF Has(j.attempt) THEN Val(j.attempt) ELSE 0

\* Mutant: the deadline is looked at before the status.
PollDecision_TtlBeforeTerminal(j, t) ==
    IF isJobExpired(j, t) THEN "p_expire"
    ELSE IF isJobTerminal(j) THEN "idle"
    ELSE IF AttemptOf(j) >= MAX_POLL_ATTEMPTS THEN "p_ceiling"
    ELSE "p_call"

\* What the tick decides from the record it has just read.
PollDecision(j, t) ==
    IF isJobTerminal(j) THEN "idle"
    ELSE IF isJobExpired(j, t) THEN "p_expire"
    ELSE IF AttemptOf(j) >= MAX_POLL_ATTEMPTS THEN "p_ceiling"
    ELSE "p_call"

\* The queue dispatches a task; the tick re-reads the job and decides.  A
\* terminal job makes the tick return at once.
PollDispatch(p) ==
    /\ queue > 0
    /\ poll[p].pc = "idle"
    /\ \A k \in Pollers : k < p => poll[k].pc # "idle"
    /\ queue' = queue - 1
    /\ IF PollDecision(job, now) = "idle"
         THEN SetPoll(p, IdlePoll)
         ELSE SetPoll(p, [pc |-> PollDecision(job, now), attempt |-> AttemptOf(job),
                          hasOp |-> Has(job.operation), res |-> "none"])
    /\ UNCHANGED <<codec, enqueued, input, job, now, ticks, cancels, inv, startCalls>>

\* now > ttl: write status=expired and stop.
PollWriteExpired(p) ==
    /\ poll[p].pc = "p_expire"
    /\ job' = UpdateExpired(job, now)
    /\ SetPoll(p, IdlePoll)
    /\ UNCHANGED <<codec, enqueued, input, now, ticks, cancels, queue, inv, startCalls>>

\* The attempt ceiling is reached: a terminal failure with its own code.
PollWriteCeiling(p) ==
    /\ poll[p].pc = "p_ceiling"
    /\ job' = UpdateFailed(job, now, CeilingCode, "Max poll attempts exceeded")
    /\ SetPoll(p, IdlePoll)
    /\ UNCHANGED <<codec, enqueued, input, now, ticks, cancels, queue, inv, startCalls>>

\* poll(operation) reports done=false: count the attempt, then re-schedule.
PollNotDone(p) ==
    /\ poll[p].pc = "p_call"
    /\ poll[p].hasOp
    /\ job' = incrementPollAttempt(job, now, poll[p].attempt)
    /\ SetPoll(p, [poll[p] EXCEPT !.pc = "p_enqueue", !.res = "notDone"])
    /\ UNCHANGED <<codec, enqueued, input, now, ticks, cancels, queue, inv, startCalls>>

\* poll(operation) fails transiently (always so without an operation handle).
PollTransientFailure(p) ==
    /\ poll[p].pc = "p_call"
    /\ job' = recordPollError(job, now, poll[p].attempt)
    /\ SetPoll(p, [poll[p] EXCEPT !.pc = "p_enqueue", !.res = "transient"])
    /\ UNCHANGED <<codec, enqueued, input, now, ticks, cancels, queue, inv, startCalls>>

\* poll(operation) reports done=true with an error: terminal failure with
\* the backend's code.
PollDoneError(p) ==
    /\ poll[p].pc = "p_call"
    /\ poll[p].hasOp
    /\ job' = UpdateFailed(job, now, BackendCode, "backend error")
    /\ SetPoll(p, IdlePoll)
    /\ UNCHANGED <<codec, enqueued, input, now, ticks, cancels, queue, inv, startCalls>>

\* poll(operation) reports done=true with data: the output is signed and the
\* whole terminal result is written in one update.
PollDoneData(p) ==
    /\ poll[p].pc = "p_call"
    /\ poll[p].hasOp
    /\ job' = UpdateSucceeded(job, now, BuildFiles(OutputUri(VeoModel), OutputMime(VeoModel)))
    /\ SetPoll(p, IdlePoll)
    /\ UNCHANGED <<codec, enqueued, input, now, ticks, cancels, queue, inv, startCalls>>

\* After a non-terminal result: enqueuePollTask(jobId).
PollEnqueue(p) ==
    /\ poll[p].pc = "p_enqueue"
    /\ queue' = enqueuePollTask(queue)
    /\ enqueued' = enqueued \cup {PollTask(JobId, POLL_INTERVAL_MS)}
    /\ SetPoll(p, IdlePoll)
    /\ UNCHANGED <<codec, input, job, now, ticks, cancels, inv, startCalls>>

onJobPoll(p) ==
    \/ PollDispatch(p)
    \/ PollWriteExpired(p)
    \/ PollWriteCeiling(p)
    \/ PollNotDone(p)
    \/ PollTransientFailure(p)
    \/ PollDoneError(p)
    \/ PollDoneData(p)
    \/ PollEnqueue(p)

\* -------------------------------------------------------------- environment

\* An external party (the owning client) sets status = canceled on a job
\* that is not terminal.
Cancel ==
    /\ cancels < MaxCancels
    /\ job.status \in Statuses \ TerminalStatuses
    /\ job' = [job EXCEPT !.status = "canceled"]
    /\ cancels' = cancels + 1
    /\ UNCHANGED <<codec, enqueued, input, now, ticks, queue, inv, poll, startCalls>>

\* Time passes: up to the end of a TTL window, or just beyond it.
ClockSteps == {JOB_TTL_MS, JOB_TTL_MS + 1}

Tick ==
    /\ ticks < MaxClockTicks
    /\ \E d \in ClockSteps : now' = now + d
    /\ ticks' = ticks + 1
    /\ UNCHANGED <<codec, enqueued, input, job, cancels, queue, inv, poll, startCalls>>

\* ------------------------------------------------------------ specification

Next ==
    \/ \E i \in Deliveries : onJobCreated(i)
    \/ \E i \in Deliveries : startJob(i)
    \/ \E i \in Deliveries : analyzeAndTransformJob(i)
    \/ \E p \in Pollers : onJobPoll(p)
    \/ Cancel
    \/ Tick

Spec == Init /\ [][Next]_vars

\* Fairness: a handler that has been invoked runs to its end, and a queued
\* poll task is dispatched.  Nothing obliges the clock to advance, the event
\* to be delivered again, or anybody to cancel.
LiveSpec ==
    /\ Spec
    /\ WF_vars(\E i \in Deliveries : startJob(i) \/ analyzeAndTransformJob(i))
    /\ WF_vars(\E p \in Pollers : onJobPoll(p))

\* ------------------------------------------------- the URL pipeline, run

RECURSIVE Ascending(_)
Ascending(S) ==
    IF S = {} THEN <<>>
    ELSE LET m == CHOOSE x \in S : \A y \in S : x <= y
         IN <<m>> \o Ascending(S \ {m})

\* A free text with its references scanned; no job is touched by the
\* pipeline ("pure function - no RTDB operations").
CodecInit ==
    /\ codec \in { [CodecIdle EXCEPT !.pc = "scanned", !.text = t] : t \in Texts }
    /\ enqueued = {}
    /\ input = [mode |-> "assisted", model |-> "absent"]
    /\ job = StringJob
    /\ now = 0
    /\ ticks = 0
    /\ cancels = 0
    /\ queue = 0
    /\ inv = [i \in Deliveries |-> IdleInv]
    /\ poll = [p \in Pollers |-> IdlePoll]
    /\ startCalls = 0

\* Pass 1: canonicalize, deduplicate, infer the media types, substitute.
TagUrls ==
    /\ codec.pc = "scanned"
    /\ LET table == UrlTable(codec.text)
       IN codec' = [codec EXCEPT !.pc = "tagged", !.table = table,
                                 !.tagged = TagText(codec.text, table)]
    /\ UNCHANGED <<enqueued, input, job, now, ticks, cancels, queue, inv, poll, startCalls>>

\* Passes 2 and 3: the language model puts some of the placeholders it was
\* shown into the structured request.
GenerateStructured ==
    /\ codec.pc = "tagged"
    /\ \E S \in (SUBSET (1..Len(codec.tagged))) \ {{}} :
          LET picked == Ascending(S)
          IN codec' = [codec EXCEPT
                 !.pc = "generated", !.picked = picked,
                 !.structured = [j \in 1..Len(picked) |-> codec.tagged[picked[j]]]]
    /\ UNCHANGED <<enqueued, input, job, now, ticks, cancels, queue, inv, poll, startCalls>>

\* Pass 4: every placeholder of the structured request is resolved.
RestoreUrls ==
    /\ codec.pc = "generated"
    /\ codec' = [codec EXCEPT
           !.pc = "resolved",
           !.request = [j \in 1..Len(codec.structured) |->
                           Resolve(codec.structured[j], codec.table)]]
    /\ UNCHANGED <<enqueued, input, job, now, ticks, cancels, queue, inv, poll, startCalls>>

CodecNext ==
    \/ TagUrls
    \/ GenerateStructured
    \/ RestoreUrls

CodecSpec == CodecInit /\ [][CodecNext]_vars

\* ------------------------------------------------------------------ claims

NonTerminalStatuses == Statuses \ TerminalStatuses

NoStartInFlight == \A i \in Deliveries : inv[i].pc \in {"pending", "done"}
PollersIdle == \A p \in Pollers : poll[p].pc = "idle"

\* The edges of the job state machine; the first write of a status into a
\* record that was a raw string counts as creation, not as a change.
StatusEdges ==
    { <<"requested", "starting">>, <<"starting", "running">>,
      <<"starting", "succeeded">>, <<"starting", "failed">>,
      <<"running", "succeeded">>, <<"running", "failed">>,
      <<"running", "expired">> }
        \cup { <<s, "canceled">> : s \in NonTerminalStatuses }
        \cup { <<"absent", s>> : s \in Statuses }

\* C1: every change of status is an edge of the job state machine.
C1_StatusFollowsGraph ==
    [][job'.status # job.status => <<job.status, job'.status>> \in StatusEdges]_vars

\* C2: terminal states are absorbing: no write changes a terminal status.
C2_TerminalAbsorbing ==
    [][job.status \in TerminalStatuses => job'.status = job.status]_vars

\* C3: adapter.start is called at most once for a job.
C3_StartCalledAtMostOnce == startCalls <= 1

\* A record as one startJob invocation (followed by its poll ticks) leaves
\* it: a result and an error never sit side by side, and a failed record
\* carries no files.
SingleInvocationRecord(j) ==
    /\ ~(Has(j.error) /\ Has(j.response))
    /\ j.status = "failed" => (Has(j.error) /\ ~Has(j.files))
    /\ j.status = "succeeded" => Has(j.response)
    /\ j.status = "running" => (Has(j.operation) /\ ~Has(j.error) /\ ~Has(j.files))

\* C4: duplicate creation triggers are idempotent with respect to the final
\* state: once every startJob invocation on an explicit job has returned,
\* the record is one that a single invocation would have produced.
C4_DuplicateTriggersIdempotent ==
    (input.mode = "explicit" /\ NoStartInFlight /\ inv[1].pc = "done")
        => SingleInvocationRecord(job)

\* C9: once a running job has been canceled, and with no startJob in flight,
\* the status stays canceled, no further poll task is enqueued and no result
\* is written.
C9_CancelStopsPolling ==
    [][(job.status = "canceled" /\ Has(job.operation) /\ NoStartInFlight)
         => /\ job'.status = "canceled"
            /\ queue' <= queue
            /\ job'.response = job.response
            /\ job'.files = job.files
            /\ job'.error = job.error]_vars

\* A step in which the queue dispatches a poll task: the tick reads the job.
TickReads == queue' < queue

PastTtl(j, t) == Has(j.ttl) /\ t > Val(j.ttl)

\* C5: a poll tick that reads the job running with now > ttl writes
\* status=expired and enqueues nothing.
C5_ExpiredTickWritesExpired ==
    [][/\ (TickReads /\ job.status = "running" /\ PastTtl(job, now))
            => \E p \in Pollers : poll[p].pc = "idle" /\ poll'[p].pc = "p_expire"
       /\ \A p \in Pollers :
            (poll[p].pc = "p_expire" /\ poll'[p] # poll[p])
                => /\ job'.status = "expired"
                   /\ queue' = queue
                   /\ poll'[p].pc = "idle"]_vars

C5_Witness == job.status = "expired" /\ PollersIdle /\ queue = 0

\* C6: every job that reaches running eventually reaches a terminal status.
C6_RunningReachesTerminal ==
    (job.status = "running") ~> (job.status \in TerminalStatuses)

\* Every poll reported done=false, and the ceiling stopped the loop.
C6_Witness ==
    /\ job.status = "failed"
    /\ Has(job.error) /\ Val(job.error).code = CeilingCode
    /\ job.attempt = Some(MAX_POLL_ATTEMPTS)
    /\ ~Has(job.lastError)

\* C7: a poll tick that reads the job running, within its TTL, with the
\* attempt count at the ceiling, writes status=failed with a code of its
\* own and enqueues nothing.
C7_CeilingFailsWithOwnCode ==
    [][/\ (/\ TickReads /\ job.status = "running" /\ ~PastTtl(job, now)
           /\ Has(job.attempt) /\ Val(job.attempt) >= MAX_POLL_ATTEMPTS)
            => \E p \in Pollers : poll[p].pc = "idle" /\ poll'[p].pc = "p_ceiling"
       /\ \A p \in Pollers :
            (poll[p].pc = "p_ceiling" /\ poll'[p] # poll[p])
                => /\ job'.status = "failed"
                   /\ Has(job'.error)
                   /\ Val(job'.error).code \notin
                        {"START_FAILED", "VALIDATION_ERROR", "AI_ANALYSIS_FAILED"}
                   /\ queue' = queue
                   /\ poll'[p].pc = "idle"]_vars

C7_Witness ==
    /\ job.status = "failed"
    /\ Has(job.error) /\ Val(job.error).code = CeilingCode
    /\ Has(job.ttl) /\ now <= Val(job.ttl)
    /\ PollersIdle /\ queue = 0

\* C8: a poll tick that finds the job terminal writes nothing, starts no
\* poll and enqueues nothing.
C8_TerminalTickIsNoOp ==
    [][(TickReads /\ job.status \in TerminalStatuses)
         => (job' = job /\ poll' = poll /\ queue' = queue - 1)]_vars

\* The job was canceled while running and its poll task is gone, yet the
\* record is exactly as the cancellation left it (no attempt counted, no
\* result): the tick ran on the canceled job and left it alone.
C8_Witness ==
    /\ input.mode = "explicit"
    /\ inv[1].pc = "done"
    /\ \A i \in Deliveries : i > 1 => inv[i].pc = "pending"
    /\ job.status = "canceled" /\ job.attempt = Some(0)
    /\ Has(job.operation) /\ ~Has(job.error) /\ ~Has(job.response)
    /\ queue = 0 /\ PollersIdle

\* C10: an explicit job with an unknown model identifier fails with
\* START_FAILED; adapter.start is never called and no poll task exists.
C10_UnknownModelFails ==
    (input.mode = "explicit" /\ input.model = UnknownModel)
        => /\ startCalls = 0
           /\ queue = 0
           /\ PollersIdle
           /\ job.status \notin {"running", "succeeded", "expired"}
           /\ job.status = "failed" =>
                (Has(job.error) /\ Val(job.error).code = "START_FAILED")
           /\ (NoStartInFlight /\ inv[1].pc = "done") => job.status = "failed"

C10_Witness ==
    /\ input.mode = "explicit" /\ input.model = UnknownModel
    /\ \A i \in Deliveries : inv[i].pc = "done"
    /\ job.status = "failed"

\* C11: no backend submission exists while the record shows status
\* requested: the starting write of startJob precedes adapter.start.
C11_NoSubmissionWhileRequested ==
    startCalls > 0 => job.status # "requested"

RecordCreatedAt(j) == IF Has(j.createdAt) THEN Val(j.createdAt) ELSE 0

AsyncStructuredJob == input.mode = "explicit" /\ input.model = VeoModel

\* C13 as stated: a structured job on an asynchronous model is running with
\* ttl = createdAt + JOB_TTL_MS, whatever time elapsed before the running
\* write.
C13_TtlFromCreatedAt ==
    (AsyncStructuredJob /\ job.status = "running")
        => (Has(job.ttl) /\ Val(job.ttl) = RecordCreatedAt(job) + JOB_TTL_MS)

\* C13: for a structured job on an asynchronous model the running write sets
\* ttl to the time of that write plus JOB_TTL_MS; ttl is createdAt +
\* JOB_TTL_MS only if no time elapsed since the record was created and is
\* later otherwise, and a running job keeps a ttl within these limits.
C13_TtlFromRunningWrite ==
    /\ [](AsyncStructuredJob /\ job.status = "running"
            => /\ Has(job.ttl)
               /\ Val(job.ttl) >= RecordCreatedAt(job) + JOB_TTL_MS
               /\ Val(job.ttl) <= now + JOB_TTL_MS)
    /\ [][(AsyncStructuredJob
            /\ \E i \in Deliveries : inv[i].pc = "s_running" /\ inv'[i] # inv[i])
           => /\ job'.ttl = Some(now + JOB_TTL_MS)
              /\ (Val(job'.ttl) = RecordCreatedAt(job') + JOB_TTL_MS)
                    <=> (now = RecordCreatedAt(job'))]_vars

\* Time passed between the creation of the record and the running write.
C13_Witness ==
    /\ AsyncStructuredJob
    /\ job.status = "running"
    /\ now > 0
    /\ job.ttl = Some(now + JOB_TTL_MS)
    /\ Val(job.ttl) > RecordCreatedAt(job) + JOB_TTL_MS
    /\ inv[1].pc = "done"
    /\ \A i \in Deliveries : i > 1 => inv[i].pc = "pending"

\* C14: a poll of an asynchronous video job that returns done=true with a
\* video URI makes the job succeeded with a files sequence of exactly one
\* entry, named file0.mp4, whose storage URI is the output URI.
C14_PollResultNamesFile0Mp4 ==
    [][\A p \in Pollers :
         (poll[p].pc = "p_call" /\ poll'[p].pc = "idle" /\ job'.status = "succeeded")
            => /\ Has(job'.files)
               /\ Len(Val(job'.files)) = 1
               /\ Val(job'.files)[1].name = "file0.mp4"
               /\ Val(job'.files)[1].gs = OutputUri(VeoModel)
               /\ Has(job'.response)
               /\ queue' = queue]_vars

\* One delivery, one poll task and one poll that found the video done.
C14_Witness ==
    /\ input.mode = "explicit" /\ input.model = VeoModel
    /\ inv[1].pc = "done"
    /\ \A i \in Deliveries : i > 1 => inv[i].pc = "pending"
    /\ job.status = "succeeded"
    /\ Has(job.operation)
    /\ Has(job.files) /\ Len(Val(job.files)) = 1
    /\ Val(job.files)[1].name = "file0.mp4"
    /\ ~Has(job.error)
    /\ queue = 0 /\ PollersIdle

SyncStructuredJob == input.mode = "explicit" /\ input.model = ImageModel

\* C15: an adapter result with an immediate output takes the job to
\* succeeded, or to failed through the catch, in a step that writes no
\* operation handle and enqueues nothing; a job on a synchronous model is
\* never running, never carries an operation and never has a poll task.
C15_SyncNeverRunning ==
    /\ [](SyncStructuredJob
            => /\ job.status # "running"
               /\ ~Has(job.operation)
               /\ queue = 0
               /\ PollersIdle)
    /\ [][\A i \in Deliveries :
            (inv[i].pc = "s_sync" /\ inv'[i] # inv[i])
               => /\ inv[i].out \in {"media", "text"}
                  /\ \/ job'.status = "succeeded" /\ inv'[i].pc = "done"
                     \/ job' = job /\ inv'[i].pc = "s_catch"
                  /\ job'.operation = job.operation
                  /\ queue' = queue
                  /\ poll' = poll]_vars

\* Both deliveries of an image job returned, the last with an output.
C15_Witness ==
    /\ SyncStructuredJob
    /\ \A i \in Deliveries : inv[i].pc = "done"
    /\ startCalls = MaxDeliveries
    /\ job.status = "succeeded"
    /\ Has(job.response)
    /\ ~Has(job.operation)
    /\ queue = 0 /\ PollersIdle

\* C16: for a synchronous adapter result the succeeded record has files
\* exactly when the output has a storage URI: an output with a URI gives
\* exactly one entry whose gs is that URI, and a text-only output gives a
\* succeeded record with no files field.
C16_FilesIffMediaOutput ==
    [][\A i \in Deliveries :
         (inv[i].pc = "s_sync" /\ inv'[i] # inv[i])
            => IF inv[i].out = "media"
                 THEN inv'[i].pc = "done"
                        => /\ job'.status = "succeeded"
                           /\ Has(job'.files)
                           /\ Len(Val(job'.files)) = 1
                           /\ Val(job'.files)[1].gs = OutputUri(inv[i].model)
                 ELSE /\ inv'[i].pc = "done"
                      /\ job'.status = "succeeded"
                      /\ ~Has(job'.files)]_vars

\* C17: a record carries files only with status succeeded, and then at
\* least one entry; no requested, starting, running, failed, expired or
\* canceled record carries files.
C17_FilesOnlyOnSucceeded ==
    Has(job.files) => (job.status = "succeeded" /\ Len(Val(job.files)) > 0)

C19_ExactlyOneOfHandleAndOutput ==
    \A i \in Deliveries :
        inv[i].out \in {"both", "neither"}
            => /\ inv[i].pc = "s_catch"
               /\ StartErrorCode(inv[i].err) = "START_FAILED"

StartJobPcs == {"s_start", "s_call", "s_running", "s_enqueue", "s_sync", "s_catch"}

\* C20: an invocation of startJob that reaches its catch makes exactly one
\* write and returns: status failed with code VALIDATION_ERROR and a message
\* naming field path and message for a schema-validation error, and code
\* START_FAILED with the error's message for any other failure; no step of
\* startJob writes failed outside the catch, and none writes
\* AI_ANALYSIS_FAILED.
C20_CatchWritesOneFailure ==
    [][\A i \in Deliveries :
         /\ (inv[i].pc = "s_catch" /\ inv'[i] # inv[i])
              => /\ inv[i].err \in {"zod", "error"}
                 /\ job'.status = "failed"
                 /\ Has(job'.error)
                 /\ Val(job'.error).code =
                       (IF inv[i].err = "zod" THEN "VALIDATION_ERROR" ELSE "START_FAILED")
                 /\ Val(job'.error).message = inv[i].msg
                 /\ inv[i].err = "zod"
                       => Val(job'.error).message = "Validation failed: prompt: Required"
                 /\ inv'[i].pc = "done"
                 /\ queue' = queue
         /\ (inv[i].pc \in StartJobPcs /\ inv'[i] # inv[i] /\ job'.error # job.error)
              => /\ inv[i].pc = "s_catch"
                 /\ Val(job'.error).code # "AI_ANALYSIS_FAILED"
         /\ (inv[i].pc \in StartJobPcs \ {"s_catch"} /\ inv'[i] # inv[i])
              => (job'.status = "failed" => job.status = "failed")]_vars

\* A schema-validation error of the adapter ended the only delivery.
C20_Witness ==
    /\ input.mode = "explicit" /\ input.model \in MODEL_REGISTRY
    /\ inv[1].pc = "done"
    /\ \A i \in Deliveries : i > 1 => inv[i].pc = "pending"
    /\ startCalls = 1
    /\ job.status = "failed"
    /\ Has(job.error)
    /\ Val(job.error).code = "VALIDATION_ERROR"
    /\ Val(job.error).message = "Validation failed: prompt: Required"

\* C21: in analyzeAndTransformJob a schema-validation failure of the
\* resolved request is written as failed with VALIDATION_ERROR, and a
\* failed model call or malformed model output as failed with
\* AI_ANALYSIS_FAILED: the two causes never share a code.
C21_AnalyzerSeparatesCodes ==
    [][\A i \in Deliveries :
         (inv[i].pc = "a_catch" /\ inv'[i] # inv[i])
            => /\ job'.status = "failed"
               /\ Has(job'.error)
               /\ Val(job'.error).code =
                     (IF inv[i].err = "zod" THEN "VALIDATION_ERROR"
                                            ELSE "AI_ANALYSIS_FAILED")]_vars

\* C22: a delivery whose analysis fails makes one write and returns: the
\* record is set to failed with assisted.prompt equal to the original prompt
\* and the owner's uid; that delivery does not call adapter.start and
\* enqueues no poll task, and while no delivery has got past its analysis
\* the job has no backend submission, no poll task and no poll in progress.
C22_FailedAnalysisKeepsPrompt ==
    /\ [][\A i \in Deliveries :
            (inv[i].pc = "a_catch" /\ inv'[i] # inv[i])
               => /\ job'.status = "failed"
                  /\ Has(job'.assisted)
                  /\ Val(job'.assisted).prompt = Prompt
                  /\ job'.uid = Some(Uid)
                  /\ Has(job'.error)
                  /\ inv'[i].pc = "done"
                  /\ startCalls' = startCalls
                  /\ queue' = queue
                  /\ poll' = poll]_vars
    /\ []((/\ input.mode = "assisted"
           /\ \A i \in Deliveries : inv[i].pc = "done"
           /\ startCalls = 0)
            => /\ job.status = "failed"
               /\ Has(job.assisted)
               /\ Val(job.assisted).prompt = Prompt
               /\ job.uid = Some(Uid)
               /\ queue = 0
               /\ PollersIdle)

\* Every delivery of the free-text job failed its analysis.
C22_Witness ==
    /\ input.mode = "assisted"
    /\ \A i \in Deliveries : inv[i].pc = "done"
    /\ startCalls = 0
    /\ job.status = "failed"
    /\ Has(job.error) /\ Val(job.error).code = "AI_ANALYSIS_FAILED"
    /\ Has(job.assisted) /\ Val(job.assisted).prompt = Prompt
    /\ queue = 0

\* C23: analyzeAndTransformJob does not touch the record before its set:
\* the delivery of the event and the analysis leave the record as it is;
\* after a successful analysis the one set writes status requested, the
\* selected model, the analyzed request, assisted.prompt = the original
\* prompt and assisted.reasons = the analyzer's reasons in their order, and
\* after a failed analysis the one set is the failure record.
C23_AnalyzerWritesOnlyAtSet ==
    [][\A i \in Deliveries :
         /\ (inv[i].pc \in {"pending", "a_analyze"} /\ inv'[i] # inv[i])
              => /\ job' = job
                 /\ queue' = queue
                 /\ startCalls' = startCalls
         /\ (inv[i].pc = "a_set" /\ inv'[i].pc = "a_catch") => job' = job
         /\ (inv[i].pc = "a_set" /\ inv'[i].pc = "s_start")
              => /\ inv[i].model \in MODEL_REGISTRY
                 /\ job'.status = "requested"
                 /\ job'.isString = FALSE
                 /\ job'.model = inv[i].model
                 /\ job'.request = Some(AnalyzedRequest(inv[i].model))
                 /\ job'.uid = Some(Uid)
                 /\ Has(job'.assisted)
                 /\ Val(job'.assisted).prompt = Prompt
                 /\ Val(job'.assisted).reasons = AnalyzedReasons
                 /\ ~Has(job'.error) /\ ~Has(job'.response) /\ ~Has(job'.files)
                 /\ inv'[i].pc = "s_start"
         /\ (inv[i].pc = "a_catch" /\ inv'[i] # inv[i])
              => /\ job'.status = "failed"
                 /\ inv'[i].pc = "done"]_vars

\* The first delivery has just set the transformed job; nothing else ran.
C23_Witness ==
    /\ input.mode = "assisted"
    /\ inv[1].pc = "s_start"
    /\ \A i \in Deliveries : i > 1 => inv[i].pc = "pending"
    /\ job.status = "requested"
    /\ job.model = inv[1].model
    /\ Has(job.assisted) /\ Val(job.assisted).reasons = AnalyzedReasons
    /\ startCalls = 0 /\ queue = 0

\* C26: the version on a record is always FIREGEN_VERSION: the metadata of
\* a new job, the transformed job and the failure record of the analyzer
\* all carry it, with createdAt = the time of the write; and no write of
\* startJob, incrementPollAttempt or recordPollError changes
\* metadata.version or metadata.createdAt.
C26_VersionIsStatic ==
    /\ [](/\ Has(job.version) => Val(job.version) = FIREGEN_VERSION
          /\ initializeJobMetadata(now).version = FIREGEN_VERSION
          /\ initializeJobMetadata(now).createdAt = now)
    /\ [][/\ \A i \in Deliveries :
               (inv[i].pc \in {"a_set", "a_catch"} /\ inv'[i].pc \in {"s_start", "done"})
                  => /\ job'.version = Some(FIREGEN_VERSION)
                     /\ job'.createdAt = Some(now)
          /\ (\/ \E i \in Deliveries : inv[i].pc \in StartJobPcs /\ inv'[i] # inv[i]
              \/ \E p \in Pollers : poll[p].pc = "p_call" /\ poll'[p].pc = "p_enqueue")
               => /\ job'.version = job.version
                  /\ job'.createdAt = job.createdAt]_vars

\* A transformed job that startJob made running and a poll helper counted,
\* at a later time than its creation.
C26_Witness ==
    /\ input.mode = "assisted"
    /\ job.status = "running"
    /\ job.version = Some(FIREGEN_VERSION)
    /\ job.createdAt = Some(0)
    /\ now > 0
    /\ job.updatedAt = Some(now)
    /\ Has(job.attempt) /\ Val(job.attempt) >= 1

\* C27: a transient poll failure on a running job leaves the status running
\* and changes metadata only: attempt = the attempt the tick read + 1 (the
\* stored attempt + 1 when no other tick wrote in between), lastError = now,
\* nextPoll = now + POLL_INTERVAL_MS, updatedAt = now; request, operation,
\* ttl, response, files and error stay as they are, and the tick then
\* enqueues exactly one further poll task.
C27_TransientFailureKeepsRunning ==
    [][\A p \in Pollers :
         /\ (/\ poll[p].pc = "p_call" /\ poll'[p].pc = "p_enqueue"
             /\ poll'[p].res = "transient" /\ job.status = "running")
              => /\ job' = [job EXCEPT !.attempt = Some(poll[p].attempt + 1),
                                       !.lastError = Some(now),
                                       !.nextPoll = Some(now + POLL_INTERVAL_MS),
                                       !.updatedAt = Some(now)]
                 /\ job'.status = "running"
                 /\ job'.request = job.request /\ job'.operation = job.operation
                 /\ job'.ttl = job.ttl /\ job'.response = job.response
                 /\ job'.files = job.files /\ job'.error = job.error
                 /\ job.attempt = Some(poll[p].attempt)
                      => Val(job'.attempt) = Val(job.attempt) + 1
                 /\ queue' = queue
         /\ (poll[p].pc = "p_enqueue" /\ poll[p].res = "transient" /\ poll'[p] # poll[p])
              => /\ queue' = queue + 1
                 /\ job' = job
                 /\ poll'[p].pc = "idle"]_vars

\* One delivery, one poll that failed transiently, and its successor queued.
C27_Witness ==
    /\ input.mode = "explicit"
    /\ inv[1].pc = "done"
    /\ \A i \in Deliveries : i > 1 => inv[i].pc = "pending"
    /\ job.status = "running"
    /\ job.attempt = Some(1)
    /\ Has(job.lastError) /\ job.lastError = job.updatedAt
    /\ job.nextPoll = Some(Val(job.lastError) + POLL_INTERVAL_MS)
    /\ Has(job.operation) /\ ~Has(job.error) /\ ~Has(job.response)
    /\ queue = 1 /\ PollersIdle

\* C28: a poll result on a running job has exactly one outcome.  done=false
\* counts the attempt, leaves the status running and the tick enqueues
\* exactly one more poll task; done=true with an error writes failed with
\* the backend's error code and enqueues nothing; done=true with data writes
\* succeeded and enqueues nothing.
C28_PollResultHasOneOutcome ==
    [][\A p \in Pollers :
         /\ (poll[p].pc = "p_call" /\ poll'[p] # poll[p])
              => /\ poll'[p].pc \in {"p_enqueue", "idle"}
                 /\ queue' = queue
                 /\ poll'[p].pc = "idle" => job'.status \in {"failed", "succeeded"}
         /\ (/\ poll[p].pc = "p_call" /\ poll'[p].pc = "p_enqueue"
             /\ poll'[p].res = "notDone" /\ job.status = "running")
              => /\ job' = [job EXCEPT !.attempt = Some(poll[p].attempt + 1),
                                       !.nextPoll = Some(now + POLL_INTERVAL_MS),
                                       !.updatedAt = Some(now)]
                 /\ job'.status = "running"
         /\ (poll[p].pc = "p_enqueue" /\ poll[p].res = "notDone" /\ poll'[p] # poll[p])
              => /\ queue' = queue + 1
                 /\ job' = job
                 /\ poll'[p].pc = "idle"
         /\ (poll[p].pc = "p_call" /\ poll'[p].pc = "idle" /\ job'.status = "failed")
              => /\ Has(job'.error)
                 /\ Val(job'.error).code = BackendCode
                 /\ job'.response = job.response /\ job'.files = job.files
         /\ (poll[p].pc = "p_call" /\ poll'[p].pc = "idle" /\ job'.status = "succeeded")
              => /\ Has(job'.response)
                 /\ Has(job'.files)
                 /\ job'.error = job.error]_vars

\* One delivery; the first poll said done=false at a later time than the
\* running write, and the next poll task is queued.
C28_Witness ==
    /\ input.mode = "explicit"
    /\ inv[1].pc = "done"
    /\ \A i \in Deliveries : i > 1 => inv[i].pc = "pending"
    /\ job.status = "running"
    /\ job.attempt = Some(1)
    /\ ~Has(job.lastError)
    /\ now > 0
    /\ job.updatedAt = Some(now)
    /\ job.nextPoll = Some(now + POLL_INTERVAL_MS)
    /\ Has(job.ttl) /\ Val(job.ttl) < now + JOB_TTL_MS
    /\ queue = 1 /\ PollersIdle

\* C29: success is one write.  A record with status succeeded always has its
\* response; on the synchronous path the invocation writes nothing between
\* its starting write and the update that sets status, response and (for an
\* output with a URI, signed before the write) files together; on the
\* polling path the tick's only write is that same single update.
C29_SuccessIsOneUpdate ==
    /\ [](job.status = "succeeded" => Has(job.response))
    /\ [][/\ \A i \in Deliveries :
               /\ (inv[i].pc = "s_call" /\ inv'[i] # inv[i]) => job' = job
               /\ (inv[i].pc = "s_sync" /\ inv'[i] # inv[i])
                    => \/ job' = job /\ inv'[i].pc = "s_catch"
                       \/ /\ inv'[i].pc = "done"
                          /\ job' = [job EXCEPT
                                       !.isString = FALSE,
                                       !.status = "succeeded",
                                       !.response = Some("rawResponse"),
                                       !.files = IF inv[i].out = "media"
                                                   THEN Some(BuildFiles(OutputUri(inv[i].model),
                                                                        OutputMime(inv[i].model)))
                                                   ELSE @,
                                       !.updatedAt = Some(now)]
          /\ \A p \in Pollers :
               (poll[p].pc = "p_call" /\ poll'[p].pc = "idle" /\ job'.status = "succeeded")
                  => job' = [job EXCEPT
                               !.isString = FALSE,
                               !.status = "succeeded",
                               !.response = Some("rawResponse"),
                               !.files = Some(BuildFiles(OutputUri(VeoModel),
                                                         OutputMime(VeoModel))),
                               !.updatedAt = Some(now)]
          /\ (job'.status = "succeeded" /\ job.status # "succeeded")
               => Has(job'.response)]_vars

\* The only delivery of an image job wrote its output in one update.
C29_Witness ==
    /\ input.mode = "explicit" /\ input.model = ImageModel
    /\ inv[1].pc = "done"
    /\ \A i \in Deliveries : i > 1 => inv[i].pc = "pending"
    /\ startCalls = 1
    /\ job.status = "succeeded"
    /\ job.response = Some("rawResponse")
    /\ Has(job.files) /\ Val(job.files)[1].gs = OutputUri(ImageModel)
    /\ ~Has(job.error)

\* C30: whatever adapter.start, the signing and the enqueue do, an
\* invocation of startJob returns only after the enqueue that follows its
\* running write, with its succeeded write, or with the failed write of its
\* catch; every error on the way leads to the catch.  After the only
\* delivery has returned the job is neither requested nor starting.
C30_StartJobAlwaysConcludes ==
    /\ [][\A i \in Deliveries :
            (inv[i].pc \in StartJobPcs /\ inv'[i] # inv[i])
               => /\ inv'[i].pc \in StartJobPcs \cup {"done"}
                  /\ inv'[i].pc = "done"
                       => \/ /\ inv[i].pc = "s_enqueue"
                             /\ job' = job
                             /\ queue' = queue + 1
                          \/ inv[i].pc = "s_sync" /\ job'.status = "succeeded"
                          \/ inv[i].pc = "s_catch" /\ job'.status = "failed"
                  /\ inv[i].pc = "s_start" => job'.status = "starting"
                  /\ inv[i].pc = "s_running" => job'.status = "running"
                  /\ inv'[i].pc = "s_catch" => inv'[i].err \in {"error", "zod"}]_vars
    /\ []((/\ inv[1].pc = "done"
           /\ \A i \in Deliveries : i > 1 => inv[i].pc = "pending"
           /\ ~job.isString)
            => job.status \notin {"requested", "starting"})

\* The running write was followed by a rejected enqueue, and the catch
\* concluded the invocation with a failed write.
C30_Witness ==
    /\ input.mode = "explicit" /\ input.model = VeoModel
    /\ inv[1].pc = "done"
    /\ \A i \in Deliveries : i > 1 => inv[i].pc = "pending"
    /\ job.status = "failed"
    /\ Has(job.error) /\ Val(job.error).message = "enqueue failed"
    /\ Has(job.operation)
    /\ queue = 0 /\ PollersIdle

\* The media objects a resolved request holds, each with the reference of the
\* free text whose placeholder it came from.
ResolvedPairs ==
    IF codec.pc = "resolved"
    THEN { <<codec.text[codec.picked[j]], codec.request[j]>> :
             j \in 1..Len(codec.request) }
    ELSE {}

\* C24: a reference of the form gs://bucket/path/name.ext in the free text,
\* once tagged and resolved, stands byte-identical in the final request, and
\* carries the media type its extension names (.jpg image/jpeg, .png
\* image/png).
C24_GsRoundTrip ==
    \A pr \in ResolvedPairs :
        pr[1].form = "gs" =>
            /\ pr[2].gcsUri = pr[1].text
            /\ (Extension(pr[1]) = "jpg" => pr[2].mimeType = "image/jpeg")
            /\ (Extension(pr[1]) = "png" => pr[2].mimeType = "image/png")

\* A text with three references, a .png among them and one of them repeated,
\* has been through the pipeline.
C24_Witness ==
    /\ codec.pc = "resolved"
    /\ Len(codec.text) = 3
    /\ Len(codec.table) = 2
    /\ \E pr \in ResolvedPairs : pr[1].form = "gs" /\ pr[2].mimeType = "image/png"
    /\ \E pr \in ResolvedPairs : pr[1].form = "gs" /\ pr[2].mimeType = "image/jpeg"

\* What the fixtures expect in the request for a reference of the free text.
ExpectedGcsUri(text) ==
    CASE text = "gs://example/product1.jpg" -> "gs://example/product1.jpg"
      [] text = "gs://example/product2.png" -> "gs://example/product2.png"
      [] text = "gs://my-bucket/images/landscape.jpg" ->
             "gs://my-bucket/images/landscape.jpg"
      [] text = "https://storage.googleapis.com/my-bucket/images/landscape.jpg" ->
             "gs://my-bucket/images/landscape.jpg"
      [] text = "https://firebasestorage.googleapis.com/v0/b/my-project.appspot.com/o/users%2Ftest%2Fvideo.mp4?alt=media" ->
             "gs://my-project.appspot.com/users/test/video.mp4"
      [] text = "https://firebasestorage.googleapis.com/v0/b/studio-3670859293-6f970.firebasestorage.app/o/users%2FnZ86oPazPgT3yZjTHhFFjkj7sR42%2Fprojects%2Fx5f8I6Tq99AGgj4HJrzF%2Fkeyframes%2Ffd3d84c9-9331-49ed-9739-7b35e76d9f9b.jpg?alt=media&token=8b570af6-92f9-4040-8f0c-c3ac0ae8ce17" ->
             "gs://studio-3670859293-6f970.firebasestorage.app/users/nZ86oPazPgT3yZjTHhFFjkj7sR42/projects/x5f8I6Tq99AGgj4HJrzF/keyframes/fd3d84c9-9331-49ed-9739-7b35e76d9f9b.jpg"

\* C25: whatever form a reference has in the free text, the request holds
\* its gs:// form: bucket and path of a storage.googleapis.com URL, bucket
\* and decoded path of a download URL without its query, a gs:// URI as it
\* was.
C25_OnlyCanonicalForm ==
    \A pr \in ResolvedPairs :
        /\ pr[2].gcsUri = ExpectedGcsUri(pr[1].text)
        /\ pr[1].form = "gs" => pr[2].gcsUri = pr[1].text
        /\ pr[1].form # "gs" => pr[2].gcsUri # pr[1].text

\* A download URL, a storage.googleapis.com URL and a gs:// URI have gone
\* through the pipeline together.
C25_Witness ==
    /\ codec.pc = "resolved"
    /\ \A f \in {"gs", "storage-api", "firebase"} :
          \E pr \in ResolvedPairs : pr[1].form = f

\* C31: the tick looks at the status first, then at the deadline, and only
\* then polls.  A tick that reads the job running with now > ttl goes to the
\* expired write whatever the attempt count and never calls poll(): its one
\* write sets status=expired and adds no response, files or error, and
\* nothing is enqueued.  A tick that reads a terminal job past its deadline
\* does not go to the expired write.
C31_DeadlineBeforePoll ==
    [][/\ (TickReads /\ job.status = "running" /\ PastTtl(job, now))
            => \E p \in Pollers :
                  /\ poll[p].pc = "idle" /\ poll'[p].pc = "p_expire"
                  /\ \A k \in Pollers \ {p} : poll'[k] = poll[k]
       /\ (TickReads /\ job.status \in TerminalStatuses /\ PastTtl(job, now))
            => poll' = poll
       /\ \A p \in Pollers :
            poll[p].pc = "p_expire" =>
                /\ poll'[p].pc \in {"p_expire", "idle"}
                /\ poll'[p].pc = "idle" =>
                     /\ job'.status = "expired"
                     /\ job'.response = job.response
                     /\ job'.files = job.files
                     /\ job'.error = job.error
                     /\ job'.attempt = job.attempt
                     /\ queue' = queue]_vars

\* The deadline passed before the first tick ran: the job is expired with no
\* attempt counted and no result of the backend on the record.
C31_Witness ==
    /\ job.status = "expired"
    /\ job.attempt = Some(0)
    /\ Has(job.operation) /\ Has(job.ttl) /\ now > Val(job.ttl)
    /\ ~Has(job.response) /\ ~Has(job.files) /\ ~Has(job.error)
    /\ ~Has(job.lastError)
    /\ PollersIdle /\ queue = 0

ErrorCodes ==
    {"VALIDATION_ERROR", "START_FAILED", "AI_ANALYSIS_FAILED", CeilingCode, BackendCode}

\* C32: the record carries an error exactly when its status is failed, and
\* the code of the error is one of the five the system writes.
C32_ErrorIffFailed ==
    /\ Has(job.error) <=> job.status = "failed"
    /\ Has(job.error) => Val(job.error).code \in ErrorCodes

\* Delays a caller could pass to enqueuePollTask, in milliseconds.
DelaySamples == {0, 1, 999, 1000, 1001, 1500, 2000, 2001}

AnalyzerSets ==
    \E i \in Deliveries :
        inv[i].pc \in {"a_set", "a_catch"} /\ inv'[i].pc # inv[i].pc

\* C34: the record has the assisted field exactly when the job was written
\* as free text and has been analyzed; its prompt is the string the client
\* wrote, in every later state; and no step other than the analyzer's two
\* writes of the whole record adds, removes or changes the field.
C34_AssistedIffFreeText ==
    /\ [](/\ Has(job.assisted) =>
               (input.mode = "assisted" /\ Val(job.assisted).prompt = Prompt)
          /\ (input.mode = "assisted" /\ ~job.isString) => Has(job.assisted)
          /\ input.mode = "explicit" => ~Has(job.assisted))
    /\ [][job'.assisted # job.assisted => AnalyzerSets]_vars

\* A free-text job went through the analyzer, startJob and a poll tick that
\* wrote the result; the prompt and the reasons are still on the record.
C34_Witness ==
    /\ input.mode = "assisted"
    /\ job.status = "succeeded"
    /\ Has(job.operation) /\ Has(job.files)
    /\ job.assisted = Some([prompt |-> Prompt, reasons |-> AnalyzedReasons])
    /\ PollersIdle /\ NoStartInFlight

\* C35: at most one poll task of the job is pending at any time.
C35_AtMostOnePendingTask == queue <= 1

\* A poll tick completes with a non-terminal result: poll() answered and the
\* attempt is written.
TickCounts(p) == poll[p].pc = "p_call" /\ poll'[p].pc = "p_enqueue"

\* C36: metadata.attempt counts the completed non-terminal ticks: every such
\* tick raises it by exactly one, and no step lowers it.
C36_AttemptCountsTicks ==
    [][/\ \A p \in Pollers :
            TickCounts(p) => job'.attempt = Some(AttemptOf(job) + 1)
       /\ AttemptOf(job') >= AttemptOf(job)]_vars

\* C37: while a poll task of the job is pending the record holds an operation
\* handle, and the tick a task starts never reads the job in requested or
\* starting.
C37_TaskOnlyAfterRunningWrite ==
    /\ [](queue > 0 => Has(job.operation))
    /\ [][TickReads => job.status \notin {"requested", "starting"}]_vars

\* The creation event was delivered once.
SingleDelivery == \A i \in Deliveries : i > 1 => inv[i].pc = "pending"

EnqueueFailure == [code |-> "START_FAILED", message |-> "enqueue failed"]

\* C38: when the enqueue of the first poll task is rejected after the
\* running write, that startJob goes to its catch without a task being
\* queued, and the catch writes status=failed with code START_FAILED and
\* queues nothing; with the one delivery, the job then stays failed and no
\* poll task or tick exists for it.
C38_EnqueueFailureFailsJob ==
    /\ [][\A i \in Deliveries :
            /\ (inv[i].pc = "s_enqueue" /\ inv'[i].pc = "s_catch")
                 => (queue' = queue /\ enqueued' = enqueued /\ job' = job)
            /\ (inv[i].pc = "s_catch" /\ inv[i].msg = "enqueue failed"
                    /\ inv'[i].pc = "done")
                 => /\ job'.status = "failed"
                    /\ job'.error = Some(EnqueueFailure)
                    /\ queue' = queue /\ enqueued' = enqueued]_vars
    /\ []((SingleDelivery /\ job.error = Some(EnqueueFailure))
            => /\ job.status = "failed"
               /\ queue = 0 /\ enqueued = {} /\ PollersIdle)
    /\ []((SingleDelivery /\ inv[1].pc = "done" /\ job.status = "running")
            => (queue > 0 \/ ~PollersIdle))

\* The running write was made, the enqueue was rejected, and the job is
\* failed with no task behind it.
C38_Witness ==
    /\ SingleDelivery /\ inv[1].pc = "done"
    /\ job.status = "failed" /\ job.error = Some(EnqueueFailure)
    /\ Has(job.operation) /\ job.attempt = Some(0)
    /\ queue = 0 /\ enqueued = {} /\ PollersIdle

\* C39: whenever analyzeAndTransformJob writes the AI_ANALYSIS_FAILED record,
\* it is the analysis that failed, adapter.start has not been called for the
\* job, and the record it replaces is not the transformed structured job.
C39_AnalysisFailedOnlyForAnalysis ==
    [][\A i \in Deliveries :
          (inv[i].pc = "a_catch" /\ inv'[i].pc = "done")
             => /\ inv[i].msg \in {"model call failed",
                                   "Validation failed: prompt: Required"}
                /\ startCalls = 0
                /\ job.isString]_vars

\* Instants around a deadline: well before, just before, at, just after and
\* well after it.
DeadlineOffsets == {0 - JOB_TTL_MS, -1, 0, 1, JOB_TTL_MS}

\* C40: isJobExpired is true exactly when the record has a non-zero ttl and
\* the clock is strictly past it: not at the deadline itself, and never for a
\* record without a ttl (or with ttl 0) however late it is.  A tick that
\* reads a running job at or before its deadline does not go to the expired
\* write.
C40_ExpiredStrictlyAfterTtl ==
    /\ [](/\ Has(job.ttl) =>
               \A d \in DeadlineOffsets :
                   isJobExpired(job, Val(job.ttl) + d) <=> d > 0
          /\ \A d \in DeadlineOffsets \cup {2 * JOB_TTL_MS + 1} :
               /\ ~isJobExpired([job EXCEPT !.ttl = None], now + d)
               /\ ~isJobExpired([job EXCEPT !.ttl = Some(0)], now + d)
          /\ isJobExpired(job, now) <=> (Has(job.ttl) /\ now > Val(job.ttl)))
    /\ [][(TickReads /\ job.status = "running" /\ Has(job.ttl)
              /\ now <= Val(job.ttl))
            => \A p \in Pollers : poll'[p].pc = "p_expire" => poll[p].pc = "p_expire"]_vars

\* At the deadline itself a tick read the running job and went on to poll.
C40_Witness ==
    /\ job.status = "running"
    /\ Has(job.ttl) /\ now = Val(job.ttl)
    /\ \E p \in Pollers : poll[p].pc = "p_call"
    /\ \A p \in Pollers : poll[p].pc # "p_expire"

====
